---- MODULE Spec2Model ----
(***************************************************************************)
(* InformationRetrievalSystem (src/main.py): loading the cleaned corpora,  *)
(* building one CountVectorizer and one document-term matrix per theme,    *)
(* ranking the documents of a theme by cosine similarity with a query and  *)
(* merging the per-theme rankings.                                         *)
(*                                                                         *)
(* A term is a natural number; the order of the numbers stands for the     *)
(* alphabetic order of the tokens.  A document is its clean_tokens list, a *)
(* sequence of terms.  A similarity score is kept exactly, as the pair     *)
(* <<n, d>> standing for the squared cosine n / d (d > 0): cosines of      *)
(* count vectors are never negative, so squares order as the cosines do.   *)
(* Floating-point rounding of the scores is not modelled.                  *)
(*                                                                         *)
(* Spec lets load_and_index_datasets find the file system in any           *)
(* condition (files missing, columns missing, index directories absent or  *)
(* empty) over corpora of copies of one document; SpecRank lets it find    *)
(* only missing or well-formed files, over corpora of varied documents;    *)
(* SpecRun drives the same engine through the menu loop of run.            *)
(*                                                                         *)
(* The preprocessing scripts (src/preprocessing.py, src/preprocessing/)    *)
(* and preprocess_query work on text: there a string is the sequence of    *)
(* its characters.  Each function studied on its own has a specification   *)
(* that draws its argument in the initial state and applies it: SpecFit    *)
(* (the vocabulary), SpecNoise, SpecNormalize, SpecStem, SpecText (the     *)
(* pipelines) and SpecRepair (the line repair).                            *)
(***************************************************************************)
EXTENDS Integers, Sequences, FiniteSets, TLC

\* Bounds of the model.
NumTerms == 2
MaxDocs == 2

Terms == 1 .. NumTerms

\* Word 0 of a raw query stands for a word that preprocess_query deletes
\* (a stopword, or a word made of digits and punctuation only).
StopWord == 0
QueryWords == {StopWord} \cup Terms

Range(s) == {s[i] : i \in 1 .. Len(s)}

\* self.themes (the first themes of the list; the loops treat all alike).
themes == <<"etd_ugm_clean", "etd_usk_clean">>
Themes == Range(themes)

(* Pure helpers of the vector-space engine.                                *)

\* preprocess_query: the words that survive are the stems, in order.
PreprocessQuery(query) == SelectSeq(query, LAMBDA w : w # StopWord)

\* Number of occurrences of term t in the token sequence toks.
RECURSIVE CountOf(_, _)
CountOf(t, toks) ==
    IF toks = <<>> THEN 0
    ELSE (IF Head(toks) = t THEN 1 ELSE 0) + CountOf(t, Tail(toks))

\* The terms of a set in ascending order (CountVectorizer sorts its
\* vocabulary before numbering the columns).
RECURSIVE SortedSeq(_)
SortedSeq(S) ==
    IF S = {} THEN <<>>
    ELSE LET m == CHOOSE x \in S : \A y \in S : x <= y
         IN  <<m>> \o SortedSeq(S \ {m})

\* The tokens of the documents, document after document, left to right.
RECURSIVE Flatten(_)
Flatten(rows) == IF rows = <<>> THEN <<>> ELSE Head(rows) \o Flatten(Tail(rows))

\* The distinct terms of a token sequence in the order of their first
\* occurrence (seen: the terms met so far).
RECURSIVE FirstSeen(_, _)
FirstSeen(toks, seen) ==
    IF toks = <<>> THEN <<>>
    ELSE IF Head(toks) \in seen THEN FirstSeen(Tail(toks), seen)
    ELSE <<Head(toks)>> \o FirstSeen(Tail(toks), seen \cup {Head(toks)})

\* A vectorizer that numbers its columns as the terms are met and never
\* sorts them.
Vocabulary_first_seen(rows) == FirstSeen(Flatten(rows), {})

\* CountVectorizer.fit: the vocabulary of the processed texts.
Vocabulary(rows) == SortedSeq(UNION {Range(rows[i]) : i \in 1 .. Len(rows)})

\* CountVectorizer.transform of one text against a vocabulary: terms that
\* are not in the vocabulary contribute nothing.
Transform(vocab, toks) == [j \in 1 .. Len(vocab) |-> CountOf(vocab[j], toks)]

\* fit_transform: the document-term matrix, one row per document.
DocTermMatrix(vocab, rows) == [i \in 1 .. Len(rows) |-> Transform(vocab, rows[i])]

RECURSIVE Dot(_, _)
Dot(u, v) ==
    IF u = <<>> THEN 0 ELSE Head(u) * Head(v) + Dot(Tail(u), Tail(v))

\* sklearn cosine_similarity of two rows: 0 when either norm is 0.
Zero == <<0, 1>>
CosineSimilarity(qv, dv) ==
    LET d  == Dot(qv, dv)
        q2 == Dot(qv, qv)
        d2 == Dot(dv, dv)
    IN  IF q2 = 0 \/ d2 = 0 \/ d = 0 THEN Zero ELSE <<d * d, q2 * d2>>

ScoreLess(a, b) == a[1] * b[2] < b[1] * a[2]
ScoreEq(a, b) == a[1] * b[2] = b[1] * a[2]
Positive(a) == a[1] > 0

\* similarities = cosine_similarity(query_vector, doc_vectors)[0]
Similarities(qv, matrix) ==
    [i \in 1 .. Len(matrix) |-> CosineSimilarity(qv, matrix[i])]

Reverse(s) == [i \in 1 .. Len(s) |-> s[Len(s) + 1 - i]]

\* similarities.argsort(): numpy's default sort is not stable, so every
\* ascending arrangement of the row indices is a possible outcome.
ArgsortOutcomes(sims) ==
    {p \in [1 .. Len(sims) -> 1 .. Len(sims)] :
        /\ \A i, j \in 1 .. Len(sims) : i # j => p[i] # p[j]
        /\ \A i, j \in 1 .. Len(sims) : i < j => ~ScoreLess(sims[p[j]], sims[p[i]])}

\* order[-top_n:][::-1].  In Python -0 is 0, so order[-0:] is all of order.
TopIndices(order, top_n) ==
    LET n == Len(order)
    IN  IF top_n = 0 \/ top_n >= n THEN Reverse(order)
        ELSE Reverse(SubSeq(order, n - top_n + 1, n))


\* A Python dict: d[k] = v.
Put(d, k, v) == [x \in DOMAIN d \cup {k} |-> IF x = k THEN v ELSE d[x]]
EmptyDict == [x \in {} |-> 0]

(* The file system as load_and_index_datasets finds it.  A CSV file is     *)
(* missing, or a table; a table has the clean_tokens column or lacks it,   *)
(* and has rows (those of a table without the column carry no tokens).     *)
(* An index directory is absent, holds an index, or exists without one     *)
(* (index.open_dir raises on it).                                          *)
DataFrame(has, rows) == [exists |-> TRUE, clean_tokens |-> has, rows |-> rows]
Missing == [exists |-> FALSE, clean_tokens |-> FALSE, rows |-> <<>>]
IndexDirs == {"absent", "index", "empty"}

\* The token lists over the word set W that name each word at most once,
\* in ascending order (a bag of words has no order, and the cosine does not
\* change when a vector is scaled).
TokenLists(W) == {SortedSeq(S) : S \in SUBSET W}
\* All tables of 0 .. n rows drawn from the document set D.
Tables(D, n) == UNION {[1 .. k -> D] : k \in 0 .. n}

VARIABLES
    documents,    \* self.documents: theme -> DataFrame
    indices,      \* self.indices: the themes whose Whoosh index is open
    vectorizers,  \* self.vectorizers: theme -> vocabulary of the fitted CountVectorizer
    doc_vectors,  \* self.doc_vectors: theme -> document-term matrix
    call,         \* the call that returned last, with its arguments
    status,       \* "ok" when it returned, "raised" when an exception left it
    results,      \* the sequence it returned
    per_theme,    \* search_all_datasets: what calculate_cosine_similarity returned per theme
    load_log,     \* load_and_index_datasets: how the loop ended for each theme, in loop order
    fn,           \* the function applied last, NoFn when none
    arg,          \* its argument
    ret,          \* what it returned
    cache         \* the lru_cache of _stem_hybrid: <<token, result>> pairs, oldest first

\* fn: the name of a function and the script (corpus) it is taken from.
Applied(name, corpus) == [name |-> name, corpus |-> corpus]
NoFn == Applied("", "")

ir_vars == <<documents, indices, vectorizers, doc_vectors, call, status, results, per_theme, load_log>>
fn_vars == <<fn, arg, ret, cache>>
vars == <<ir_vars, fn_vars>>

Memory(d, i, vz, dv) == [documents |-> d, indices |-> i, vectorizers |-> vz, doc_vectors |-> dv]
mem == Memory(documents, indices, vectorizers, doc_vectors)

\* One pass of the loop body of load_and_index_datasets for one theme:
\* the memory it leaves and how it ended.
LoadTheme(m, theme, fs) ==
    LET df == fs.csv[theme]
        m1 == [m EXCEPT !.documents = Put(m.documents, theme, df)]
        m2 == [m1 EXCEPT !.indices = m1.indices \cup {theme}]
        vocab == Vocabulary(df.rows)
        m3 == [m2 EXCEPT !.vectorizers = Put(m2.vectorizers, theme, vocab),
                         !.doc_vectors = Put(m2.doc_vectors, theme, DocTermMatrix(vocab, df.rows))]
    IN  IF df = Missing THEN [mem |-> m, how |-> "read_error"]
        ELSE IF fs.index[theme] = "absent" THEN [mem |-> m1, how |-> "no_index"]
        ELSE IF fs.index[theme] = "empty" THEN [mem |-> m1, how |-> "index_error"]
        ELSE IF ~df.clean_tokens THEN [mem |-> m2, how |-> "column_error"]
        ELSE IF vocab = <<>> THEN [mem |-> m2, how |-> "vectorizer_error"]
        ELSE [mem |-> m3, how |-> "loaded"]

\* The loop with the try around it instead of inside it: the first
\* exception ends the loop.
RECURSIVE LoadLoop_abort(_, _, _, _)
LoadLoop_abort(m, log, i, fs) ==
    IF i > Len(themes) THEN [mem |-> m, log |-> log]
    ELSE LET r == LoadTheme(m, themes[i], fs)
             logged == Append(log, [theme |-> themes[i], how |-> r.how])
         IN  IF r.how \in {"read_error", "index_error", "column_error", "vectorizer_error"}
             THEN [mem |-> r.mem, log |-> logged]
             ELSE LoadLoop_abort(r.mem, logged, i + 1, fs)

\* The for loop over self.themes, from position i: every exception is
\* caught inside the loop body, so the loop goes on with the next theme.
RECURSIVE LoadLoop(_, _, _, _)
LoadLoop(m, log, i, fs) ==
    IF i > Len(themes) THEN [mem |-> m, log |-> log]
    ELSE LET r == LoadTheme(m, themes[i], fs)
         IN  LoadLoop(r.mem, Append(log, [theme |-> themes[i], how |-> r.how]), i + 1, fs)

\* The value of the 'content' field: the clean_tokens cell, or "N/A".
Cell(tokens) == [na |-> FALSE, tokens |-> tokens]
NA == [na |-> TRUE, tokens |-> <<>>]

Returned(seq) == [status |-> "ok", results |-> seq]
Raised == [status |-> "raised", results |-> <<>>]

\* The filter written with >= in place of >.
Relevant_or_zero(score) == score[1] >= 0

\* if similarities[idx] > 0
Relevant(score) == Positive(score)

\* The loop over top_indices of calculate_cosine_similarity.  An index i of
\* the model is the row idx = i - 1 of the code.  df.iloc[idx]['clean_tokens']
\* raises KeyError when the table has the row but not the column.
RECURSIVE CollectResults(_, _, _, _, _)
CollectResults(top_indices, sims, df, theme, acc) ==
    IF top_indices = <<>> THEN Returned(acc)
    ELSE LET i == Head(top_indices)
             rest == Tail(top_indices)
         IN  IF ~Relevant(sims[i]) THEN CollectResults(rest, sims, df, theme, acc)
             ELSE IF i - 1 < Len(df.rows) /\ ~df.clean_tokens THEN Raised
             ELSE CollectResults(rest, sims, df, theme,
                      Append(acc, [rank |-> Len(acc) + 1,
                                   doc_id |-> i - 1,
                                   theme |-> theme,
                                   similarity_score |-> sims[i],
                                   content |-> IF i - 1 < Len(df.rows)
                                               THEN Cell(df.rows[i]) ELSE NA]))

\* if theme not in self.vectorizers or theme not in self.doc_vectors
NotBuilt(m, theme) ==
    theme \notin DOMAIN m.vectorizers \/ theme \notin DOMAIN m.doc_vectors

\* The guard failing fast in place of returning.
NotBuiltOutcome_raise == Raised

\* return [] of that guard
NotBuiltOutcome == Returned(<<>>)

\* calculate_cosine_similarity: the set of its possible outcomes, one per
\* outcome of argsort.  (transform of a string against a fitted vectorizer
\* does not raise, so the except branch around it is never taken.)
CalculateCosineSimilarity(m, query_text, theme, top_n) ==
    IF NotBuilt(m, theme) THEN {NotBuiltOutcome}
    ELSE LET processed_query == PreprocessQuery(query_text)
             query_vector == Transform(m.vectorizers[theme], processed_query)
             sims == Similarities(query_vector, m.doc_vectors[theme])
         IN  {CollectResults(TopIndices(order, top_n), sims, m.documents[theme], theme, <<>>) :
                 order \in ArgsortOutcomes(sims)}

\* list.sort(key = similarity_score, reverse = True): a stable sort, so
\* entries of equal score keep the order they had in the list.
RECURSIVE InsertDesc(_, _)
InsertDesc(e, sorted) ==
    IF sorted = <<>> THEN <<e>>
    ELSE IF ScoreLess(Head(sorted).similarity_score, e.similarity_score)
         THEN <<e>> \o sorted
         ELSE <<Head(sorted)>> \o InsertDesc(e, Tail(sorted))

RECURSIVE SortDesc(_)
SortDesc(list) ==
    IF list = <<>> THEN <<>>
    ELSE InsertDesc(list[Len(list)], SortDesc(SubSeq(list, 1, Len(list) - 1)))

\* list[:n]
Prefix(list, n) == SubSeq(list, 1, IF n < Len(list) THEN n ELSE Len(list))

\* def calculate_cosine_similarity(self, query_text, theme, top_n=5)
DefaultTopN == 5

\* The call that leaves the count out and so asks each theme for the default.
PerCorpusCount_default(top_n) == DefaultTopN

\* The count search_all_datasets passes to calculate_cosine_similarity.
PerCorpusCount(top_n) == top_n

\* The loop of search_all_datasets from position i: all_results so far, and
\* what each theme returned.  An exception in one call leaves the loop.
RECURSIVE Gather(_, _, _, _, _, _)
Gather(m, query_text, top_n, i, all_results, per) ==
    IF i > Len(themes) THEN {[status |-> "ok", all_results |-> all_results, per |-> per]}
    ELSE UNION {
            IF r.status = "raised"
            THEN {[status |-> "raised", all_results |-> <<>>, per |-> per]}
            ELSE Gather(m, query_text, top_n, i + 1, all_results \o r.results,
                        Put(per, themes[i], r.results)) :
            r \in CalculateCosineSimilarity(m, query_text, themes[i], PerCorpusCount(top_n))}

\* return all_results[:top_n]
GlobalTop(sorted, top_n) == Prefix(sorted, top_n)

\* search_all_datasets: the set of its possible outcomes.
SearchAllDatasets(m, query_text, top_n) ==
    {IF g.status = "raised" THEN [status |-> "raised", results |-> <<>>, per |-> g.per]
     ELSE [status |-> "ok", results |-> GlobalTop(SortDesc(g.all_results), top_n), per |-> g.per] :
        g \in Gather(m, query_text, top_n, 1, <<>>, EmptyDict)}

\* search_single_dataset
SearchSingleDataset(m, query_text, theme, top_n) ==
    IF theme \notin DOMAIN m.documents THEN {Returned(<<>>)}
    ELSE CalculateCosineSimilarity(m, query_text, theme, top_n)

(* The state machine.  An operation is started from the menu and its      *)
(* outcome stays on display until the operator presses Enter.             *)
Idle == [op |-> "menu", theme |-> "", query |-> <<>>, top_n |-> 0]
AtMenu == call.op = "menu"

InitIR ==
    /\ documents = EmptyDict
    /\ indices = {}
    /\ vectorizers = EmptyDict
    /\ doc_vectors = EmptyDict
    /\ call = Idle
    /\ status = "ok"
    /\ results = <<>>
    /\ per_theme = EmptyDict
    /\ load_log = <<>>

\* The system as constructed; no preprocessing function is under study.
Init ==
    /\ InitIR
    /\ fn = NoFn
    /\ arg = <<>>
    /\ ret = <<>>
    /\ cache = <<>>

\* load_and_index_datasets, finding the file system fs.
LoadAndIndexDatasets(fs) ==
    /\ AtMenu
    /\ LET r == LoadLoop(mem, <<>>, 1, fs)
       IN  /\ documents' = r.mem.documents
           /\ indices' = r.mem.indices
           /\ vectorizers' = r.mem.vectorizers
           /\ doc_vectors' = r.mem.doc_vectors
           /\ load_log' = r.log
    /\ call' = [Idle EXCEPT !.op = "load"]
    /\ status' = "ok"
    /\ results' = <<>>
    /\ per_theme' = EmptyDict
    /\ UNCHANGED fn_vars

\* A call of calculate_cosine_similarity(query_text, theme, top_n).
CalcCall(query_text, theme, top_n) ==
    /\ AtMenu
    /\ \E r \in CalculateCosineSimilarity(mem, query_text, theme, top_n) :
          /\ status' = r.status
          /\ results' = r.results
    /\ call' = [op |-> "calc", theme |-> theme, query |-> PreprocessQuery(query_text), top_n |-> top_n]
    /\ per_theme' = EmptyDict
    /\ UNCHANGED <<documents, indices, vectorizers, doc_vectors, load_log>>
    /\ UNCHANGED fn_vars

\* A call of search_single_dataset(query_text, theme, top_n).
SingleCall(query_text, theme, top_n) ==
    /\ AtMenu
    /\ \E r \in SearchSingleDataset(mem, query_text, theme, top_n) :
          /\ status' = r.status
          /\ results' = r.results
    /\ call' = [op |-> "single", theme |-> theme, query |-> PreprocessQuery(query_text), top_n |-> top_n]
    /\ per_theme' = EmptyDict
    /\ UNCHANGED <<documents, indices, vectorizers, doc_vectors, load_log>>
    /\ UNCHANGED fn_vars

\* A call of search_all_datasets(query_text, top_n).
AllCall(query_text, top_n) ==
    /\ AtMenu
    /\ \E r \in SearchAllDatasets(mem, query_text, top_n) :
          /\ status' = r.status
          /\ results' = r.results
          /\ per_theme' = r.per
    /\ call' = [op |-> "all", theme |-> "", query |-> PreprocessQuery(query_text), top_n |-> top_n]
    /\ UNCHANGED <<documents, indices, vectorizers, doc_vectors, load_log>>
    /\ UNCHANGED fn_vars

\* "Press Enter to continue...": back to the menu.  An exception that left
\* a search ends the program instead.
Continue ==
    /\ ~AtMenu
    /\ status = "ok"
    /\ call.op # "exit"
    /\ call' = Idle
    /\ results' = <<>>
    /\ per_theme' = EmptyDict
    /\ load_log' = <<>>
    /\ UNCHANGED <<documents, indices, vectorizers, doc_vectors, status>>
    /\ UNCHANGED fn_vars

\* The inputs.
Queries == TokenLists(QueryWords)
TopNs == 0 .. MaxDocs
Documents == TokenLists(Terms)

\* File systems in every condition, over corpora of copies of one document.
Files ==
    {Missing, DataFrame(FALSE, [i \in 1 .. MaxDocs |-> <<>>])}
        \cup {DataFrame(TRUE, rows) : rows \in Tables({<<1>>}, MaxDocs)}
FileSystems == [csv : [Themes -> Files], index : [Themes -> IndexDirs]]

\* File systems whose CSV files are missing or well-formed (with some term
\* to index), each with an index directory.
CleanFiles ==
    {Missing} \cup {DataFrame(TRUE, rows) :
                        rows \in {t \in Tables(Documents, MaxDocs) : Vocabulary(t) # <<>>}}
CleanFileSystems == [csv : [Themes -> CleanFiles], index : [Themes -> {"index"}]]

Search ==
    \E query_text \in Queries, top_n \in TopNs :
        \/ AllCall(query_text, top_n)
        \/ \E theme \in Themes : SingleCall(query_text, theme, top_n)
        \/ \E theme \in Themes : CalcCall(query_text, theme, top_n)

Next ==
    \/ \E fs \in FileSystems : LoadAndIndexDatasets(fs)
    \/ Search
    \/ Continue

Spec == Init /\ [][Next]_vars

NextRank ==
    \/ \E fs \in CleanFileSystems : LoadAndIndexDatasets(fs)
    \/ Search
    \/ Continue

SpecRank == Init /\ [][NextRank]_vars

(* Properties.                                                            *)

ThemePos(theme) == CHOOSE i \in 1 .. Len(themes) : themes[i] = theme
Built(theme) == ~NotBuilt(mem, theme)

\* The similarities of the rows of a built theme with the query of the call.
SimsOf(theme) ==
    Similarities(Transform(vectorizers[theme], call.query), doc_vectors[theme])

\* C1: for top_n >= 1 the sequence calculate_cosine_similarity returns is in
\* descending order of score, and of two entries of equal score the one of
\* the lower row index comes first.
C1_DescendingTiesByRow ==
    (call.op = "calc" /\ status = "ok" /\ call.top_n >= 1) =>
        \A i, j \in 1 .. Len(results) :
            i < j =>
                /\ ~ScoreLess(results[i].similarity_score, results[j].similarity_score)
                /\ ScoreEq(results[i].similarity_score, results[j].similarity_score)
                      => results[i].doc_id < results[j].doc_id

\* C2: for top_n >= 0 calculate_cosine_similarity returns at most top_n
\* entries, each of a score greater than 0.
C2_AtMostTopNPositive ==
    (call.op = "calc" /\ status = "ok") =>
        /\ Len(results) <= call.top_n
        /\ \A i \in 1 .. Len(results) : Positive(results[i].similarity_score)

\* e comes before f in the order of the merged ranking: higher score first,
\* then the theme earlier in self.themes, then the lower row.
Precedes(e, f) ==
    \/ ScoreLess(f.similarity_score, e.similarity_score)
    \/ /\ ScoreEq(e.similarity_score, f.similarity_score)
       /\ \/ ThemePos(e.theme) < ThemePos(f.theme)
          \/ e.theme = f.theme /\ e.doc_id < f.doc_id

\* The concatenation of the lists the themes returned, in loop order.
RECURSIVE Concatenation(_)
Concatenation(i) ==
    IF i > Len(themes) THEN <<>>
    ELSE (IF themes[i] \in DOMAIN per_theme THEN per_theme[themes[i]] ELSE <<>>)
             \o Concatenation(i + 1)

\* C3: search_all_datasets(q, n) returns the first n entries of the
\* concatenation of the per-theme lists put in the order: score descending,
\* then position of the theme in self.themes, then row order.
C3_MergedOrder ==
    (call.op = "all" /\ status = "ok") =>
        LET cands == Concatenation(1)
        IN  /\ Len(results) = (IF call.top_n < Len(cands) THEN call.top_n ELSE Len(cands))
            /\ Range(results) \subseteq Range(cands)
            /\ \A i, j \in 1 .. Len(results) : i < j => Precedes(results[i], results[j])
            /\ \A c \in Range(cands) \ Range(results) :
                  \A r \in Range(results) : Precedes(r, c)

\* The number of rows of the entry's theme that score strictly higher.
StrictlyBetter(e) ==
    Cardinality({i \in 1 .. Len(doc_vectors[e.theme]) :
                    ScoreLess(e.similarity_score, SimsOf(e.theme)[i])})

\* C4: every entry search_all_datasets(q, n) returns is one of the at most n
\* entries calculate_cosine_similarity(q, theme, n) returned for its theme,
\* and fewer than n rows of its theme score strictly higher than it.
C4_OnlyPerCorpusTopN ==
    (call.op = "all" /\ status = "ok") =>
        \A k \in 1 .. Len(results) :
            LET e == results[k]
            IN  /\ e.theme \in DOMAIN per_theme
                /\ e \in Range(per_theme[e.theme])
                /\ Len(per_theme[e.theme]) <= call.top_n
                /\ StrictlyBetter(e) < call.top_n

\* A merged ranking that left out a row of positive score which its own
\* theme did not return, although it scores higher than an entry another
\* theme returned.
C4_Witness ==
    /\ call.op = "all" /\ status = "ok" /\ results # <<>>
    /\ \E t \in Themes, u \in Themes :
          /\ t # u /\ Built(t) /\ t \in DOMAIN per_theme /\ u \in DOMAIN per_theme
          /\ \E i \in 1 .. Len(doc_vectors[t]) :
                /\ Positive(SimsOf(t)[i])
                /\ \A e \in Range(per_theme[t]) : e.doc_id # i - 1
                /\ \A e \in Range(results) : ~(e.theme = t /\ e.doc_id = i - 1)
                /\ \E f \in Range(per_theme[u]) : ScoreLess(f.similarity_score, SimsOf(t)[i])

IsThemeSearch == call.op \in {"calc", "single"}

NoneInVocabulary(query, vocab) == Range(query) \cap Range(vocab) = {}

\* C6: on a built theme, a query none of whose preprocessed tokens is in the
\* vocabulary has the all-zero vector and the search returns the empty list.
C6_OutOfVocabularyEmpty ==
    (IsThemeSearch /\ Built(call.theme)
        /\ NoneInVocabulary(call.query, vectorizers[call.theme])) =>
        /\ \A j \in 1 .. Len(vectorizers[call.theme]) :
              Transform(vectorizers[call.theme], call.query)[j] = 0
        /\ status = "ok"
        /\ results = <<>>

\* A search with a non-empty out-of-vocabulary query over a built theme
\* that has rows, asked for at least one result.
C6_Witness ==
    /\ IsThemeSearch /\ Built(call.theme) /\ call.query # <<>> /\ call.top_n >= 1
    /\ NoneInVocabulary(call.query, vectorizers[call.theme])
    /\ Len(doc_vectors[call.theme]) >= 1

Failures == {"read_error", "index_error", "column_error", "vectorizer_error"}
Has(d, k) == k \in DOMAIN d
SameEntry(d, e, k) == Has(d, k) = Has(e, k) /\ (Has(d, k) => d[k] = e[k])

\* C7: a call of load_and_index_datasets attempts every theme in list order
\* whatever failed before; a theme whose CSV could not be read keeps all its
\* entries, a theme that failed later keeps its vectorizer and matrix, and a
\* theme that loaded has a vectorizer and a matrix of its new documents.
C7_LoadFailuresIsolated ==
    [][call'.op = "load" =>
        /\ Len(load_log') = Len(themes)
        /\ \A i \in 1 .. Len(themes) :
              LET t == themes[i]
                  how == load_log'[i].how
              IN  /\ load_log'[i].theme = t
                  /\ how = "read_error" =>
                        /\ SameEntry(documents, documents', t)
                        /\ (t \in indices) = (t \in indices')
                  /\ how # "loaded" =>
                        /\ SameEntry(vectorizers, vectorizers', t)
                        /\ SameEntry(doc_vectors, doc_vectors', t)
                  /\ how = "loaded" =>
                        /\ Has(documents', t) /\ Has(vectorizers', t) /\ Has(doc_vectors', t)
                        /\ vectorizers'[t] = Vocabulary(documents'[t].rows)
                        /\ Len(doc_vectors'[t]) = Len(documents'[t].rows)]_vars

\* A load in which a theme failed and a later theme loaded, and one in
\* which a theme failed after an earlier theme had loaded.
C7_Witness ==
    /\ call.op = "load"
    /\ \E i, j \in 1 .. Len(load_log) :
          i < j /\ load_log[i].how \in Failures /\ load_log[j].how = "loaded"

\* C8: no failure in the processing of one theme raises out of
\* search_all_datasets (asked for at least one result).
C8_AllNeverRaises ==
    (call.op = "all" /\ call.top_n >= 1) => status = "ok"

\* C9: in the sequence calculate_cosine_similarity or search_all_datasets
\* returns, the rank of the i-th entry is i.
C9_RankIsPosition ==
    (call.op \in {"calc", "all"} /\ status = "ok") =>
        \A i \in 1 .. Len(results) : results[i].rank = i

\* C10: every theme with a document-term matrix has documents, and the
\* matrix has as many rows as the documents.
C10_MatrixRowsMatchDocuments ==
    \A t \in DOMAIN doc_vectors :
        /\ t \in DOMAIN documents
        /\ Len(doc_vectors[t]) = Len(documents[t].rows)

(* The vocabulary of a corpus (CountVectorizer.fit at load time).          *)

\* Corpora whose documents keep their tokens in text order, repeats
\* included.
TokenSeqs == Tables(Terms, NumTerms)
Corpora == Tables(TokenSeqs, MaxDocs)

InitFit ==
    /\ InitIR
    /\ fn = NoFn
    /\ arg \in Corpora
    /\ ret = <<>>
    /\ cache = <<>>

\* vectorizer.fit_transform(processed_texts): the vocabulary it fits.
Fit ==
    /\ fn = NoFn
    /\ fn' = Applied("fit", "")
    /\ ret' = Vocabulary(arg)
    /\ UNCHANGED <<arg, cache>>
    /\ UNCHANGED ir_vars

SpecFit == InitFit /\ [][Fit]_vars

\* The column index of term t in the vocabulary vocab, counted from 0.
ColumnOf(vocab, t) == (CHOOSE j \in 1 .. Len(vocab) : vocab[j] = t) - 1

\* C11: the k-th distinct term met while scanning the documents in order,
\* tokens left to right, has column index k - 1.
C11_FirstSeenOrder ==
    fn.name = "fit" =>
        LET met == FirstSeen(Flatten(arg), {})
        IN  /\ Len(ret) = Len(met)
            /\ \A k \in 1 .. Len(met) : ColumnOf(ret, met[k]) = k - 1

\* C11 as the code has it: the columns are the distinct terms of the
\* corpus in ascending (alphabetic) order, whatever the order they are met
\* in.
C11_AlphabeticOrder ==
    fn.name = "fit" =>
        /\ Range(ret) = Range(Flatten(arg))
        /\ \A j, k \in 1 .. Len(ret) : j < k => ret[j] < ret[k]

\* A corpus that meets a later term first has been fitted.
C11_Witness ==
    /\ fn.name = "fit"
    /\ Len(ret) >= 2
    /\ FirstSeen(Flatten(arg), {}) # ret

(* Text.  A string is the sequence of its characters, each a one-character *)
(* string; a token list is a sequence of strings.                          *)

Alphabet == <<"a", "b", "c", "d", "e", "f", "g", "h", "i", "j", "k", "l", "m",
              "n", "o", "p", "q", "r", "s", "t", "u", "v", "w", "x", "y", "z">>
Capitals == <<"A", "B", "C", "D", "E", "F", "G", "H", "I", "J", "K", "L", "M",
              "N", "O", "P", "Q", "R", "S", "T", "U", "V", "W", "X", "Y", "Z">>
LowerCase == Range(Alphabet)
UpperCase == Range(Capitals)
Digits == {"0", "1", "2", "3", "4", "5", "6", "7", "8", "9"}
Whitespace == {" ", "\t", "\n"}
WordChars == LowerCase \cup UpperCase \cup Digits \cup {"_"}
Vowels == {"a", "e", "i", "o", "u"}

\* str.lower
ToLower(c) ==
    IF c \in UpperCase
    THEN Alphabet[CHOOSE i \in 1 .. Len(Capitals) : Capitals[i] = c]
    ELSE c
Lower(s) == [i \in 1 .. Len(s) |-> ToLower(s[i])]

Drop(s, n) == SubSeq(s, n + 1, Len(s))
StartsWith(s, lit) == Len(s) >= Len(lit) /\ SubSeq(s, 1, Len(lit)) = lit
EndsWith(s, lit) == Len(s) >= Len(lit) /\ Drop(s, Len(s) - Len(lit)) = lit

\* The length of the longest prefix of s made of characters of the set S.
RECURSIVE RunLength(_, _)
RunLength(s, S) ==
    IF s = <<>> \/ Head(s) \notin S THEN 0 ELSE 1 + RunLength(Tail(s), S)

\* The length of the longest prefix of s made of characters outside S.
RECURSIVE RunLengthOutside(_, _)
RunLengthOutside(s, S) ==
    IF s = <<>> \/ Head(s) \in S THEN 0 ELSE 1 + RunLengthOutside(Tail(s), S)

\* re.sub of a one-character class by a space: the characters of S, or
\* the characters outside Keep.
ReplaceIn(s, S) == [i \in 1 .. Len(s) |-> IF s[i] \in S THEN " " ELSE s[i]]
ReplaceOutside(s, Keep) == [i \in 1 .. Len(s) |-> IF s[i] \in Keep THEN s[i] ELSE " "]
\* re.sub of the characters outside Keep by the empty string.
DeleteOutside(s, Keep) == SelectSeq(s, LAMBDA c : c \in Keep)

\* str.split(sep) for the separators Sep: the fields between separators,
\* empty fields included.
RECURSIVE SplitOn(_, _)
SplitOn(s, Sep) ==
    LET n == RunLengthOutside(s, Sep)
    IN  IF n = Len(s) THEN <<s>>
        ELSE <<SubSeq(s, 1, n)>> \o SplitOn(Drop(s, n + 1), Sep)

\* str.split(): the maximal runs of non-whitespace characters.
Split(s) == SelectSeq(SplitOn(s, Whitespace), LAMBDA w : w # <<>>)

\* " ".join(words)
RECURSIVE Join(_)
Join(words) ==
    IF words = <<>> THEN <<>>
    ELSE IF Len(words) = 1 THEN Head(words)
    ELSE Head(words) \o <<" ">> \o Join(Tail(words))

\* _MULTISP.sub(" ", t).strip(): every run of whitespace becomes one
\* space and the ends are trimmed.
CollapseStrip(t) == Join(Split(t))

\* _URL_RE.sub(" ", t), on lower-cased text: "http://", "https://" or
\* "www." followed by at least one non-space character, up to the next
\* whitespace, becomes one space.
UrlLead(t) ==
    IF StartsWith(t, <<"h", "t", "t", "p", "s", ":", "/", "/">>) /\ Len(t) > 8
         /\ t[9] \notin Whitespace THEN 8
    ELSE IF StartsWith(t, <<"h", "t", "t", "p", ":", "/", "/">>) /\ Len(t) > 7
         /\ t[8] \notin Whitespace THEN 7
    ELSE IF StartsWith(t, <<"w", "w", "w", ".">>) /\ Len(t) > 4
         /\ t[5] \notin Whitespace THEN 4
    ELSE 0
RECURSIVE UrlSub(_)
UrlSub(t) ==
    IF t = <<>> THEN <<>>
    ELSE IF UrlLead(t) > 0
         THEN <<" ">> \o UrlSub(Drop(t, RunLengthOutside(t, Whitespace)))
         ELSE <<Head(t)>> \o UrlSub(Tail(t))

\* _MENTION.sub(" ", t): "@" and the word characters that follow it, at
\* least one, become one space.
RECURSIVE MentionSub(_)
MentionSub(t) ==
    IF t = <<>> THEN <<>>
    ELSE IF Head(t) = "@" /\ RunLength(Tail(t), WordChars) > 0
         THEN <<" ">> \o MentionSub(Drop(t, 1 + RunLength(Tail(t), WordChars)))
         ELSE <<Head(t)>> \o MentionSub(Tail(t))

\* _HASHTAG.sub(" ", t)
HashtagSub(t) == ReplaceIn(t, {"#"})

(* The libraries the scripts call, as far as the scripts depend on them:   *)
(* Sastrawi's stop word list, root word dictionary and stemmer, and NLTK's *)
(* Porter stemmer.  The word lists are samples of the real ones.           *)

\* StopWordRemoverFactory().get_stop_words(): "di", "ini".
STOPWORDS == {<<"d", "i">>, <<"i", "n", "i">>}

\* Sastrawi's root words: "es", "main".
Dictionary == {<<"e", "s">>, <<"m", "a", "i", "n">>}

\* Sastrawi's suffixes, in the order the stemmer removes them: particles,
\* possessive pronouns, derivational suffixes.
Particles == {<<"l", "a", "h">>, <<"k", "a", "h">>, <<"t", "a", "h">>, <<"p", "u", "n">>}
Possessives == {<<"k", "u">>, <<"m", "u">>, <<"n", "y", "a">>}
Derivationals == {<<"i">>, <<"k", "a", "n">>, <<"a", "n">>}

\* w without the longest suffix of the set that it ends with.
StripSuffix(w, Suffixes) ==
    LET found == {x \in Suffixes : EndsWith(w, x)}
    IN  IF found = {} THEN w
        ELSE LET x == CHOOSE y \in found : \A z \in found : Len(z) <= Len(y)
             IN  SubSeq(w, 1, Len(w) - Len(x))

\* Stemmer.stem_word: a root word or a word of at most 3 letters is kept;
\* otherwise the suffixes are removed one kind after the other until a
\* root word is left; a word that leads to no root word is kept.  (The
\* prefix rules and the plural forms with a hyphen are not modelled.)
StemWord(w) ==
    LET w1 == StripSuffix(w, Particles)
        w2 == StripSuffix(w1, Possessives)
        w3 == StripSuffix(w2, Derivationals)
    IN  IF w \in Dictionary \/ Len(w) <= 3 THEN w
        ELSE IF w1 \in Dictionary THEN w1
        ELSE IF w2 \in Dictionary THEN w2
        ELSE IF w3 \in Dictionary THEN w3
        ELSE w

\* TextNormalizer.normalize_text: lower case, every character other than
\* a-z, 0-9, space and hyphen becomes a space, runs of spaces collapse.
SastrawiNormalize(text) ==
    CollapseStrip(ReplaceOutside(Lower(text), LowerCase \cup Digits \cup {" ", "-"}))

\* Stemmer.stem(text): the normalized text, word by word.
StemText(text) ==
    LET words == SplitOn(SastrawiNormalize(text), {" "})
    IN  Join([i \in 1 .. Len(words) |-> StemWord(words[i])])

\* StopWordRemover.remove(text): the words between single spaces that are
\* not stop words, joined by single spaces again.
StopWordRemove(text) ==
    Join(SelectSeq(SplitOn(text, {" "}), LAMBDA w : w \notin STOPWORDS))

HasVowel(w) == \E i \in 1 .. Len(w) : w[i] \in Vowels

\* PorterStemmer.stem, steps 1a and 1b without their clean-up rules: the
\* plural endings, then "ed" and "ing" after a stem that has a vowel.
PorterStem(word) ==
    LET w == Lower(word)
        n == Len(w)
        a == IF EndsWith(w, <<"s", "s", "e", "s">>) THEN SubSeq(w, 1, n - 2)
             ELSE IF EndsWith(w, <<"i", "e", "s">>)
                  THEN SubSeq(w, 1, IF n = 4 THEN n - 1 ELSE n - 2)
             ELSE IF EndsWith(w, <<"s", "s">>) THEN w
             ELSE IF EndsWith(w, <<"s">>) THEN SubSeq(w, 1, n - 1)
             ELSE w
        m == Len(a)
    IN  IF n <= 2 THEN w
        ELSE IF EndsWith(a, <<"e", "d">>) /\ HasVowel(SubSeq(a, 1, m - 2))
             THEN SubSeq(a, 1, m - 2)
        ELSE IF EndsWith(a, <<"i", "n", "g">>) /\ HasVowel(SubSeq(a, 1, m - 3))
             THEN SubSeq(a, 1, m - 3)
        ELSE a

(* The noise filters.                                                      *)

\* _REP3: some character three times in a row ("." matches no newline).
Rep3(w) == \E i \in 1 .. Len(w) - 2 : w[i] # "\n" /\ w[i] = w[i + 1] /\ w[i] = w[i + 2]
\* _DIGIT_ONLY
DigitOnly(w) == w # <<>> /\ \A i \in 1 .. Len(w) : w[i] \in Digits
\* str.isalpha
IsAlpha(w) == w # <<>> /\ \A i \in 1 .. Len(w) : w[i] \in LowerCase \cup UpperCase

\* min_len of _is_noise.
min_len == 3

IsNoise_etd_ugm(token) ==
    \/ Len(token) < min_len
    \/ ~HasVowel(token)
    \/ Rep3(token)
    \/ DigitOnly(token)

IsNoise_etd_usk(token) ==
    \/ Len(token) < min_len
    \/ ~HasVowel(token)
    \/ Rep3(token)
    \/ DigitOnly(token)

\* _is_noise asking for a vowel in alphabetic tokens only.
IsNoise_kompas_alphabetic(w) ==
    \/ Len(w) < min_len
    \/ IsAlpha(w) /\ ~HasVowel(w)
    \/ Rep3(w)
    \/ DigitOnly(w)

IsNoise_kompas(w) ==
    \/ Len(w) < min_len
    \/ ~HasVowel(w)
    \/ Rep3(w)
    \/ DigitOnly(w)

IsNoise_mojok(token) ==
    \/ Len(token) < min_len
    \/ ~HasVowel(token)
    \/ Rep3(token)
    \/ DigitOnly(token)

IsNoise_tempo(token) ==
    \/ Len(token) < min_len
    \/ IsAlpha(token) /\ ~HasVowel(token)
    \/ Rep3(token)

Scripts == {"etd_ugm", "etd_usk", "kompas", "mojok", "tempo"}

\* _is_noise of the script of a corpus.
IsNoise(corpus, token) ==
    CASE corpus = "etd_ugm" -> IsNoise_etd_ugm(token)
      [] corpus = "etd_usk" -> IsNoise_etd_usk(token)
      [] corpus = "kompas" -> IsNoise_kompas(token)
      [] corpus = "mojok" -> IsNoise_mojok(token)
      [] corpus = "tempo" -> IsNoise_tempo(token)

(* The normalizers.                                                        *)

\* \b between the characters k and k + 1 of t: exactly one of the two is a
\* word character.
IsWord(t, k) == k >= 1 /\ k <= Len(t) /\ t[k] \in WordChars
Boundary(t, k) == IsWord(t, k) # IsWord(t, k + 1)

\* _NUMBER.sub(" ", t) of mojok.py, from character i on: a digit at a word
\* boundary and the longest run of digits, "." and "," after it that ends
\* at a word boundary become one space.
RECURSIVE NumberSub(_, _)
NumberSub(t, i) ==
    IF i > Len(t) THEN <<>>
    ELSE LET r == RunLength(Drop(t, i - 1), Digits \cup {".", ","})
             ends == {e \in i .. i + r - 1 : Boundary(t, e)}
         IN  IF t[i] \in Digits /\ Boundary(t, i - 1) /\ ends # {}
             THEN <<" ">> \o NumberSub(t, 1 + CHOOSE e \in ends : \A f \in ends : f <= e)
             ELSE <<t[i]>> \o NumberSub(t, i + 1)

\* _ABSTRACT_JOINED of etd_usk.py: the length of a heading word that t
\* starts with, "ABSTRAK", "Judul" or "Latar Belakang" (any whitespace
\* between the two words), when a capital letter follows it; 0 otherwise.
AbstractLead(t) ==
    LET Latar == <<"L", "a", "t", "a", "r">>
        Belakang == <<"B", "e", "l", "a", "k", "a", "n", "g">>
        gap == RunLength(Drop(t, Len(Latar)), Whitespace)
        n == IF StartsWith(t, <<"A", "B", "S", "T", "R", "A", "K">>) THEN 7
             ELSE IF StartsWith(t, <<"J", "u", "d", "u", "l">>) THEN 5
             ELSE IF StartsWith(t, Latar)
                       /\ StartsWith(Drop(t, Len(Latar) + gap), Belakang)
                  THEN Len(Latar) + gap + Len(Belakang)
             ELSE 0
    IN  IF n > 0 /\ Len(t) > n /\ t[n + 1] \in UpperCase THEN n ELSE 0

\* _ABSTRACT_JOINED.sub(r"\1 ", text): a space after such a heading word.
RECURSIVE AbstractJoinedSub(_)
AbstractJoinedSub(t) ==
    IF t = <<>> THEN <<>>
    ELSE LET n == AbstractLead(t)
         IN  IF n > 0 THEN SubSeq(t, 1, n) \o <<" ">> \o AbstractJoinedSub(Drop(t, n))
             ELSE <<Head(t)>> \o AbstractJoinedSub(Tail(t))

\* The characters etd_ugm.py and etd_usk.py replace by a space one by one
\* (of the double quotes and the non-breaking space only the ASCII quote
\* is written here).
QuoteLike == {"\"", "\n"}

Normalize_etd_ugm(text) ==
    LET t1 == ReplaceIn(Lower(text), QuoteLike)
        t2 == HashtagSub(MentionSub(UrlSub(t1)))
        t3 == ReplaceOutside(t2, LowerCase \cup Whitespace)
    IN  CollapseStrip(t3)

Normalize_etd_usk(text) ==
    LET t0 == AbstractJoinedSub(text)
        t1 == ReplaceIn(Lower(t0), QuoteLike)
        t2 == HashtagSub(MentionSub(UrlSub(t1)))
        t3 == ReplaceOutside(t2, LowerCase \cup Whitespace)
    IN  CollapseStrip(t3)

\* _normalize of kompas.py collapsing the whitespace before, not after,
\* the other characters are replaced by spaces.
Normalize_kompas_collapse_first(t) ==
    LET t2 == HashtagSub(MentionSub(UrlSub(Lower(t))))
    IN  ReplaceOutside(CollapseStrip(t2), LowerCase \cup Whitespace)

Normalize_kompas(t) ==
    LET t2 == HashtagSub(MentionSub(UrlSub(Lower(t))))
        t3 == ReplaceOutside(t2, LowerCase \cup Whitespace)
    IN  CollapseStrip(t3)

Normalize_mojok(text) ==
    LET t2 == HashtagSub(MentionSub(UrlSub(Lower(text))))
        t3 == NumberSub(t2, 1)
        t4 == ReplaceOutside(t3, LowerCase \cup Whitespace)
    IN  CollapseStrip(t4)

Normalize_tempo(text) ==
    LET t2 == HashtagSub(MentionSub(UrlSub(Lower(text))))
        t3 == ReplaceOutside(t2, LowerCase \cup Digits \cup Whitespace)
    IN  CollapseStrip(t3)

\* _normalize of the script of a corpus.
Normalize(corpus, text) ==
    CASE corpus = "etd_ugm" -> Normalize_etd_ugm(text)
      [] corpus = "etd_usk" -> Normalize_etd_usk(text)
      [] corpus = "kompas" -> Normalize_kompas(text)
      [] corpus = "mojok" -> Normalize_mojok(text)
      [] corpus = "tempo" -> Normalize_tempo(text)

\* tokenize of the script of a corpus.
Tokenize(corpus, text) == Split(Normalize(corpus, text))

(* The pipelines.                                                          *)

\* The endings that make _stem_hybrid take a word for English.
EnglishEndings ==
    {<<"i", "n", "g">>, <<"e", "d">>, <<"t", "i", "o", "n">>, <<"s">>, <<"e", "s">>,
     <<"e", "r", "s">>, <<"i", "e", "s">>}
\* _ENWORD
EnWord(tok) == tok # <<>> /\ \A i \in 1 .. Len(tok) : tok[i] \in LowerCase

\* The body of _stem_hybrid (kompas.py and mojok.py have the same one).
StemHybrid(tok) ==
    LET s_id == StemText(tok)
    IN  IF s_id # tok THEN s_id
        ELSE IF EnWord(tok) /\ \E e \in EnglishEndings : EndsWith(tok, e)
             THEN PorterStem(tok)
        ELSE tok

\* _REMOVE_KEYWORDS of etd_usk.py.
REMOVE_KEYWORDS ==
    {<<"a", "b", "s", "t", "r", "a", "k">>, <<"j", "u", "d", "u", "l">>,
     <<"l", "a", "t", "a", "r">>, <<"b", "e", "l", "a", "k", "a", "n", "g">>}

MapSeq(Op(_), seq) == [i \in 1 .. Len(seq) |-> Op(seq[i])]

PreprocessText_etd_ugm(text) ==
    LET toks1 == SelectSeq(Tokenize("etd_ugm", text), LAMBDA t : t \notin STOPWORDS)
        toks2 == SelectSeq(toks1, LAMBDA t : ~IsNoise_etd_ugm(t))
    IN  MapSeq(StemText, toks2)

PreprocessText_etd_usk(text) ==
    LET toks1 == SelectSeq(Tokenize("etd_usk", text),
                           LAMBDA t : t \notin STOPWORDS /\ t \notin REMOVE_KEYWORDS)
        toks2 == SelectSeq(toks1, LAMBDA t : ~IsNoise_etd_usk(t))
    IN  MapSeq(StemText, toks2)

PreprocessText_kompas(t) ==
    LET toks1 == SelectSeq(Tokenize("kompas", t), LAMBDA w : w \notin STOPWORDS)
        toks2 == MapSeq(StemHybrid, toks1)
    IN  SelectSeq(toks2, LAMBDA w : w \notin STOPWORDS /\ ~IsNoise_kompas(w))

PreprocessText_mojok(text) ==
    LET toks1 == SelectSeq(Tokenize("mojok", text), LAMBDA t : t \notin STOPWORDS)
        toks2 == MapSeq(StemHybrid, toks1)
    IN  SelectSeq(toks2, LAMBDA t : t \notin STOPWORDS /\ ~IsNoise_mojok(t))

PreprocessText_tempo(text) ==
    LET toks1 == SelectSeq(Tokenize("tempo", text), LAMBDA t : t \notin STOPWORDS)
    IN  SelectSeq(toks1, LAMBDA t : ~IsNoise_tempo(t))

\* preprocess_text of the script of a corpus.
PreprocessText(corpus, text) ==
    CASE corpus = "etd_ugm" -> PreprocessText_etd_ugm(text)
      [] corpus = "etd_usk" -> PreprocessText_etd_usk(text)
      [] corpus = "kompas" -> PreprocessText_kompas(text)
      [] corpus = "mojok" -> PreprocessText_mojok(text)
      [] corpus = "tempo" -> PreprocessText_tempo(text)

\* The scripts whose preprocess_text stems.
Stemming == {"etd_ugm", "etd_usk", "kompas", "mojok"}

\* preprocess_query of main.py on the text of a query: lower case, the
\* characters other than a-z and whitespace deleted, stop words removed,
\* the whole text stemmed, extra spaces removed.
preprocess_query(query) ==
    LET q1 == Lower(query)
        q2 == DeleteOutside(q1, LowerCase \cup Whitespace)
        q3 == StopWordRemove(q2)
        q4 == StemText(q3)
    IN  Join(Split(q4))

\* Texts made of at most n of the pieces.
RECURSIVE TextsOf(_, _)
TextsOf(Pieces, n) ==
    IF n = 0 THEN {<<>>}
    ELSE LET shorter == TextsOf(Pieces, n - 1)
         IN  shorter \cup {p \o t : p \in Pieces, t \in shorter}

MaxPieces == 3

\* The texts given to the pipelines: root words, a suffix, a stop word,
\* single letters, and the characters that join or separate words.
WordPieces ==
    {<<"e", "s">>, <<"m", "a", "i", "n">>, <<"n", "y", "a">>, <<"d", "i">>,
     <<"b">>, <<"s">>, <<" ">>, <<"-">>}
Texts == TextsOf(WordPieces, MaxPieces)

NoCache == <<>>

InitText ==
    /\ InitIR
    /\ fn = NoFn
    /\ arg \in Texts
    /\ ret = <<>>
    /\ cache = NoCache

\* preprocess_query(arg); ret is the list of the words of its result.
PreprocessQueryCall ==
    /\ fn = NoFn
    /\ fn' = Applied("preprocess_query", "")
    /\ ret' = Split(preprocess_query(arg))
    /\ UNCHANGED <<arg, cache>>
    /\ UNCHANGED ir_vars

\* preprocess_text(arg) of the script of a corpus.
PreprocessTextCall(corpus) ==
    /\ fn = NoFn
    /\ fn' = Applied("preprocess_text", corpus)
    /\ ret' = PreprocessText(corpus, arg)
    /\ UNCHANGED <<arg, cache>>
    /\ UNCHANGED ir_vars

NextText ==
    \/ PreprocessQueryCall
    \/ \E corpus \in Scripts : PreprocessTextCall(corpus)

SpecText == InitText /\ [][NextText]_vars

\* C12: no word of the result of preprocess_query is noise: shorter than 3
\* characters, without a vowel, or with a character three times in a row.
C12_QueryOutputNotNoise ==
    fn.name = "preprocess_query" =>
        \A i \in 1 .. Len(ret) :
            ~(Len(ret[i]) < min_len \/ ~HasVowel(ret[i]) \/ Rep3(ret[i]))

(* _is_noise on its own.                                                   *)

MaxTokenLen == 4

\* Tokens of a vowel, a consonant and a digit.
TokenChars == {"a", "b", "1"}
Tokens == Tables(TokenChars, MaxTokenLen)

InitNoise ==
    /\ InitIR
    /\ fn = NoFn
    /\ arg \in Tokens
    /\ ret = <<>>
    /\ cache = NoCache

\* _is_noise(arg) of the script of a corpus.
IsNoiseCall(corpus) ==
    /\ fn = NoFn
    /\ fn' = Applied("_is_noise", corpus)
    /\ ret' = IsNoise(corpus, arg)
    /\ UNCHANGED <<arg, cache>>
    /\ UNCHANGED ir_vars

NextNoise == \E corpus \in Scripts : IsNoiseCall(corpus)

SpecNoise == InitNoise /\ [][NextNoise]_vars

\* The corpora whose policy is to drop digit-only tokens.
DropsDigitOnly == {"etd_ugm", "etd_usk", "kompas", "mojok"}

\* C13: for every token and every corpus, _is_noise is true exactly when
\* the token is shorter than 3, or is alphabetic and has no vowel, or has
\* a character three times in a row, or is digits only and the corpus
\* drops digit-only tokens.
C13_NoiseExactly ==
    fn.name = "_is_noise" =>
        (ret <=> \/ Len(arg) < 3
                 \/ IsAlpha(arg) /\ ~HasVowel(arg)
                 \/ Rep3(arg)
                 \/ DigitOnly(arg) /\ fn.corpus \in DropsDigitOnly)

\* C13 as the code has it: only tempo asks for the token to be alphabetic
\* before it looks for a vowel; the other four scripts call every token
\* without a vowel noise, digits and letters mixed included.
C13_NoiseExactlyPerCorpus ==
    fn.name = "_is_noise" =>
        (ret <=> \/ Len(arg) < 3
                 \/ ~HasVowel(arg) /\ (IsAlpha(arg) \/ fn.corpus # "tempo")
                 \/ Rep3(arg)
                 \/ DigitOnly(arg) /\ fn.corpus \in DropsDigitOnly)

\* A token of letters and digits without a vowel, long enough and without
\* a repeat, has been classified by a script that drops digit-only tokens
\* and by tempo.
C13_Witness ==
    /\ fn.name = "_is_noise"
    /\ Len(arg) >= 3 /\ ~HasVowel(arg) /\ ~IsAlpha(arg) /\ ~DigitOnly(arg) /\ ~Rep3(arg)
    /\ fn.corpus \in DropsDigitOnly
    /\ ret

(* _normalize on its own, applied once and then to its own result.         *)

\* The raw texts: a letter in both cases, a digit, a space, a full stop,
\* the characters of mentions, hashtags and quotations, the start of a URL
\* and a heading word of etd_usk.
RawPieces ==
    {<<"a">>, <<"A">>, <<"1">>, <<" ">>, <<".">>, <<"@">>, <<"#">>, <<"\"">>,
     <<"w", "w", "w", ".">>, <<"J", "u", "d", "u", "l">>}
RawTexts == TextsOf(RawPieces, MaxPieces)

InitNormalize ==
    /\ InitIR
    /\ fn = NoFn
    /\ arg \in RawTexts
    /\ ret = <<>>
    /\ cache = NoCache

\* _normalize of the script of a corpus, applied to arg and then to what
\* it returned; ret lists the results.
NormalizeCall(corpus) ==
    /\ fn = NoFn \/ (fn = Applied("_normalize", corpus) /\ Len(ret) < 2)
    /\ fn' = Applied("_normalize", corpus)
    /\ ret' = Append(ret, Normalize(corpus, IF ret = <<>> THEN arg ELSE ret[Len(ret)]))
    /\ UNCHANGED <<arg, cache>>
    /\ UNCHANGED ir_vars

NextNormalize == \E corpus \in Scripts : NormalizeCall(corpus)

SpecNormalize == InitNormalize /\ [][NextNormalize]_vars

\* C14: for every text and every corpus, normalizing the normalized text
\* gives the normalized text again.
C14_NormalizeIdempotent ==
    (fn.name = "_normalize" /\ Len(ret) = 2) => ret[2] = ret[1]

\* A text that _normalize changed, into a text of two words at least, has
\* been normalized twice.
C14_Witness ==
    /\ fn.name = "_normalize"
    /\ Len(ret) = 2
    /\ ret[1] # arg
    /\ Len(Split(ret[1])) >= 2

(* _stem_hybrid behind its lru_cache.                                      *)

\* maxsize of the lru_cache, scaled down.
CacheMax == 3

\* The tokens stemmed: "esnya" and "Es" (changed by the Indonesian
\* stemmer), "mains", "maining" and "es" (unchanged by it, English
\* looking), "main" and "b1s" (neither).
StemTokens ==
    {<<"e", "s", "n", "y", "a">>, <<"E", "s">>, <<"m", "a", "i", "n", "s">>,
     <<"m", "a", "i", "n", "i", "n", "g">>, <<"e", "s">>, <<"m", "a", "i", "n">>,
     <<"b", "1", "s">>}

Cached(c, tok) == \E i \in 1 .. Len(c) : c[i][1] = tok

\* A cache that answers with its newest entry whatever the token.
Lookup_newest(c, tok) == c[Len(c)][2]

\* The result the cache c holds for tok.
Lookup(c, tok) == c[CHOOSE i \in 1 .. Len(c) : c[i][1] = tok][2]

\* The cache after a hit on tok: its entry becomes the newest.
Touch(c, tok) ==
    SelectSeq(c, LAMBDA e : e[1] # tok) \o <<<<tok, Lookup(c, tok)>>>>

\* The cache after a miss: the new entry is the newest, and the oldest
\* leaves a full cache.
Store(c, tok, result) ==
    (IF Len(c) >= CacheMax THEN Tail(c) ELSE c) \o <<<<tok, result>>>>

InitStem ==
    /\ InitIR
    /\ fn = NoFn
    /\ arg = <<>>
    /\ ret = <<>>
    /\ cache = NoCache

\* A call _stem_hybrid(tok) that finds tok in the cache.
StemHybridHit(tok) ==
    /\ Cached(cache, tok)
    /\ fn' = Applied("_stem_hybrid", "kompas")
    /\ arg' = tok
    /\ ret' = Lookup(cache, tok)
    /\ cache' = Touch(cache, tok)
    /\ UNCHANGED ir_vars

\* A call _stem_hybrid(tok) that runs the body and caches its result.
StemHybridMiss(tok) ==
    /\ ~Cached(cache, tok)
    /\ fn' = Applied("_stem_hybrid", "kompas")
    /\ arg' = tok
    /\ ret' = StemHybrid(tok)
    /\ cache' = Store(cache, tok, ret')
    /\ UNCHANGED ir_vars

NextStem == \E tok \in StemTokens : StemHybridHit(tok) \/ StemHybridMiss(tok)

SpecStem == InitStem /\ [][NextStem]_vars

\* C15: _stem_hybrid returns the Indonesian stemmer's output when that
\* differs from the token; else the Porter stemmer's output when the token
\* is all a-z and has one of the endings; else the token; and a call
\* returns this whatever the calls before it were.
C15_StemHybridCases ==
    fn.name = "_stem_hybrid" =>
        LET primary == StemText(arg)
            english == /\ \A i \in 1 .. Len(arg) : arg[i] \in LowerCase
                       /\ \E e \in EnglishEndings : EndsWith(arg, e)
        IN  /\ primary # arg => ret = primary
            /\ (primary = arg /\ english) => ret = PorterStem(arg)
            /\ (primary = arg /\ ~english) => ret = arg

\* The cache is full; its newest entry is the call just answered, with a
\* changed token, and its oldest entry holds another result.
C15_Witness ==
    /\ fn.name = "_stem_hybrid"
    /\ Len(cache) = CacheMax
    /\ cache[Len(cache)] = <<arg, ret>>
    /\ ret # arg
    /\ cache[1][2] # ret

\* C16: in every script that stems, the noise filter runs on the stemmed
\* tokens: no token of the clean token list that preprocess_text returns
\* is noise for the _is_noise of that script.
C16_CleanTokensNotNoise ==
    (fn.name = "preprocess_text" /\ fn.corpus \in Stemming) =>
        \A i \in 1 .. Len(ret) : ~IsNoise(fn.corpus, ret[i])

(* The line repair: fix_multiline_csv of etd_ugm.py and                    *)
(* perbaiki_csv_tidak_rapi of preprocessing.py, one step per line read.    *)

MaxLineLen == 2
MaxLines == 2

\* The physical lines of the input file, without their line ends: quotes,
\* commas and other characters.
LineChars == {"\"", ",", "x"}
Lines == Tables(LineChars, MaxLineLen)
LineLists == Tables(Lines, MaxLines)

\* str.count('"')
RECURSIVE CountChar(_, _)
CountChar(s, c) ==
    IF s = <<>> THEN 0 ELSE (IF Head(s) = c THEN 1 ELSE 0) + CountChar(Tail(s), c)
Quotes(s) == CountChar(s, "\"")

\* str.strip(chars): the characters of S removed from both ends.
Strip(s, S) ==
    LET a == RunLength(s, S)
        rest == Drop(s, a)
        b == RunLength(Reverse(rest), S)
    IN  SubSeq(rest, 1, Len(rest) - b)

\* line.split(',', 1), for a line with a comma.
BeforeComma(line) == SubSeq(line, 1, RunLengthOutside(line, {","}))
AfterComma(line) == Drop(line, RunLengthOutside(line, {","}) + 1)

\* A row of hasil.
Row(judul, konten) == <<Strip(judul, Whitespace), Strip(Strip(konten, {"\""}), Whitespace)>>

\* The local variables of either function before the first line.
Locals == [i |-> 1, buffer |-> <<>>, judul |-> <<>>, out |-> <<>>, done |-> FALSE]

Repairs == {Applied("fix_multiline_csv", "etd_ugm"), Applied("perbaiki_csv_tidak_rapi", "")}

InitRepair ==
    /\ InitIR
    /\ fn \in Repairs
    /\ arg \in LineLists
    /\ ret = Locals
    /\ cache = NoCache

\* One pass of the loop of fix_multiline_csv.
FixLine ==
    /\ fn.name = "fix_multiline_csv" /\ ~ret.done /\ ret.i <= Len(arg)
    /\ LET line == arg[ret.i]
           buffer == IF ret.buffer = <<>> THEN line ELSE ret.buffer \o <<" ">> \o line
       IN  ret' = IF Quotes(buffer) % 2 = 0
                  THEN [ret EXCEPT !.i = @ + 1, !.out = Append(@, buffer), !.buffer = <<>>]
                  ELSE [ret EXCEPT !.i = @ + 1, !.buffer = buffer]
    /\ UNCHANGED <<fn, arg, cache>>
    /\ UNCHANGED ir_vars

\* After the loop of fix_multiline_csv: what is left in the buffer is the
\* last line written.
FixEnd ==
    /\ fn.name = "fix_multiline_csv" /\ ~ret.done /\ ret.i > Len(arg)
    /\ ret' = [ret EXCEPT !.done = TRUE,
                          !.out = IF ret.buffer # <<>> THEN Append(@, ret.buffer) ELSE @]
    /\ UNCHANGED <<fn, arg, cache>>
    /\ UNCHANGED ir_vars

\* One pass of the loop of perbaiki_csv_tidak_rapi.
PerbaikiLine ==
    /\ fn.name = "perbaiki_csv_tidak_rapi" /\ ~ret.done /\ ret.i <= Len(arg)
    /\ LET line == Strip(arg[ret.i], {"\n"})
           next == [ret EXCEPT !.i = @ + 1]
           buffer == ret.buffer \o <<" ">> \o line
       IN  ret' =
             IF line = <<>> THEN next
             ELSE IF Quotes(line) = 1 /\ ret.buffer = <<>>
                  THEN IF "," \in Range(line)
                       THEN [next EXCEPT !.judul = BeforeComma(line), !.buffer = AfterComma(line)]
                       ELSE next
             ELSE IF ret.buffer # <<>>
                  THEN IF Quotes(buffer) % 2 = 0
                       THEN [next EXCEPT !.out = Append(@, Row(ret.judul, buffer)),
                                         !.buffer = <<>>]
                       ELSE [next EXCEPT !.buffer = buffer]
             ELSE IF Quotes(line) >= 2 /\ "," \in Range(line)
                  THEN [next EXCEPT !.judul = BeforeComma(line),
                                    !.out = Append(@, Row(BeforeComma(line), AfterComma(line)))]
             ELSE next
    /\ UNCHANGED <<fn, arg, cache>>
    /\ UNCHANGED ir_vars

\* After the loop of perbaiki_csv_tidak_rapi: the rows become the frame.
PerbaikiEnd ==
    /\ fn.name = "perbaiki_csv_tidak_rapi" /\ ~ret.done /\ ret.i > Len(arg)
    /\ ret' = [ret EXCEPT !.done = TRUE]
    /\ UNCHANGED <<fn, arg, cache>>
    /\ UNCHANGED ir_vars

NextRepair == FixLine \/ FixEnd \/ PerbaikiLine \/ PerbaikiEnd

SpecRepair == InitRepair /\ [][NextRepair]_vars

\* The buffer holds a quoted field that is not closed.
Unterminated(buffer) == buffer # <<>> /\ Quotes(buffer) % 2 = 1

\* The last record written is made of the buffer.
LastIsBuffer ==
    /\ ret.out # <<>>
    /\ ret.out[Len(ret.out)] =
          IF fn.name = "fix_multiline_csv" THEN ret.buffer ELSE Row(ret.judul, ret.buffer)

\* C17: in both functions lines are merged until the quote count of the
\* buffer is even (a line waits in the buffer exactly while the count is
\* odd), and when the input ends inside a quoted field the buffer is
\* written as the last record, not dropped.
C17_TrailingBufferEmitted ==
    /\ (fn.name = "fix_multiline_csv" /\ ~ret.done) =>
          (ret.buffer = <<>> \/ Unterminated(ret.buffer))
    /\ (fn \in Repairs /\ ret.done /\ Unterminated(ret.buffer)) => LastIsBuffer

\* C18: for every text, the words of preprocess_query(text) are the clean
\* tokens the document pipeline of etd_ugm makes of the same text.  (Stated
\* for the texts of which preprocess_query returns no noise word, so that
\* the missing noise filter of C12 plays no part.)
C18_QueryLikeDocument ==
    (/\ fn.name = "preprocess_query"
     /\ \A i \in 1 .. Len(ret) : ~IsNoise_etd_ugm(ret[i])) =>
        ret = PreprocessText_etd_ugm(arg)

(* The menu loop of run.                                                   *)

\* Numbers of results as run hands them over: the number typed, or the
\* default when the input is not made of digits.
RunTopNs == TopNs \cup {DefaultTopN}

\* Option 1.
Option1(fs) == LoadAndIndexDatasets(fs)

\* Option 2 with datasets loaded, a query and a number of results.
Option2(query_text, top_n) ==
    /\ documents # EmptyDict
    /\ AllCall(query_text, top_n)

\* Option 3 with datasets loaded, a dataset of the list, a query and a
\* number of results.
Option3(query_text, theme, top_n) ==
    /\ documents # EmptyDict
    /\ SingleCall(query_text, theme, top_n)

\* What the loop does without calling the engine: "refused" (option 2 or
\* 3 with no dataset loaded), "message" (option 4, an invalid option, an
\* empty query, an invalid dataset or the way back from the dataset menu).
Message(op) ==
    /\ AtMenu
    /\ op = "refused" => documents = EmptyDict
    /\ call' = [Idle EXCEPT !.op = op]
    /\ UNCHANGED <<documents, indices, vectorizers, doc_vectors, status, results,
                   per_theme, load_log>>
    /\ UNCHANGED fn_vars

\* Option 2 or 3 with datasets loaded and a number of results for which
\* isdigit() is true and int() raises ValueError (a superscript digit).
BadNumber ==
    /\ AtMenu
    /\ documents # EmptyDict
    /\ call' = [Idle EXCEPT !.op = "int"]
    /\ status' = "raised"
    /\ UNCHANGED <<documents, indices, vectorizers, doc_vectors, results, per_theme, load_log>>
    /\ UNCHANGED fn_vars

\* Option 5.
Option5 ==
    /\ AtMenu
    /\ call' = [Idle EXCEPT !.op = "exit"]
    /\ UNCHANGED <<documents, indices, vectorizers, doc_vectors, status, results,
                   per_theme, load_log>>
    /\ UNCHANGED fn_vars

NextRun ==
    \/ \E fs \in FileSystems : Option1(fs)
    \/ \E query_text \in Queries, top_n \in RunTopNs : Option2(query_text, top_n)
    \/ \E query_text \in Queries, theme \in Themes, top_n \in RunTopNs :
          Option3(query_text, theme, top_n)
    \/ \E op \in {"refused", "message"} : Message(op)
    \/ BadNumber
    \/ Option5
    \/ Continue

SpecRun == Init /\ [][NextRun]_vars

\* The while loop of run has ended: by the break of option 5, or by an
\* exception that nothing in run catches.
LoopEnded == call.op = "exit" \/ status = "raised"

\* C19: in the run loop both searches are called only with documents
\* loaded, options 2 and 3 before that go back to the menu without a
\* search, and the loop ends only when option 5 is chosen.
C19_GuardedSearchExitByOption5 ==
    /\ call.op \in {"all", "single"} => documents # EmptyDict
    /\ call.op = "refused" => (documents = EmptyDict /\ status = "ok" /\ results = <<>>)
    /\ LoopEnded => call.op = "exit"
====
